---- MODULE Spec2Model ----
(***************************************************************************)
(* BusTimeETLA: the Lambda handler of src/main.py.  An incident report     *)
(* arrives as a JSON body, is validated, archived to the raw S3 bucket,    *)
(* enriched with alert_priority and average_delay_minutes and written to   *)
(* the DynamoDB table.                                                     *)
(*                                                                         *)
(* A Python str is a sequence of one-character strings.  A JSON text is a  *)
(* sequence of lexemes (punctuation, whitespace, string and number         *)
(* literals), so that json.loads and json.dumps are real conversions.      *)
(***************************************************************************)
EXTENDS Integers, Sequences, FiniteSets, TLC

\* ------------------------------------------------------------ bounds
\* Largest reading of the clock (datetime.utcnow()).
MaxClock == 1
\* Invocations of handler that may run concurrently (SpecConc).
NumInvocations == 2
\* Pieces concatenated into a delay text (SpecDelay).
MaxPieces == 3

\* ------------------------------------------------------------ str literals
s_Busbreakdown_ID == <<"B", "u", "s", "b", "r", "e", "a", "k", "d", "o", "w", "n", " ", "I", "D">>
s_Route_Number == <<"R", "o", "u", "t", "e", " ", "N", "u", "m", "b", "e", "r">>
s_Reason == <<"R", "e", "a", "s", "o", "n">>
s_How_Long_Delayed == <<"H", "o", "w", " ", "L", "o", "n", "g", " ", "D", "e", "l", "a", "y", "e", "d">>
s_Occurred_On == <<"O", "c", "c", "u", "r", "r", "e", "d", " ", "O", "n">>
s_RouteNumber == <<"R", "o", "u", "t", "e", "N", "u", "m", "b", "e", "r">>
s_OccurredOn == <<"O", "c", "c", "u", "r", "r", "e", "d", "O", "n">>
s_alert_priority == <<"a", "l", "e", "r", "t", "_", "p", "r", "i", "o", "r", "i", "t", "y">>
s_average_delay_minutes == <<"a", "v", "e", "r", "a", "g", "e", "_", "d", "e", "l", "a", "y", "_", "m", "i", "n", "u", "t", "e", "s">>
s_high == <<"h", "i", "g", "h">>
s_medium == <<"m", "e", "d", "i", "u", "m">>
s_low == <<"l", "o", "w">>
s_Mechanical_Problem == <<"M", "e", "c", "h", "a", "n", "i", "c", "a", "l", " ", "P", "r", "o", "b", "l", "e", "m">>
s_Flat_Tire == <<"F", "l", "a", "t", " ", "T", "i", "r", "e">>
s_Wont_Start == <<"W", "o", "n", "'", "t", " ", "S", "t", "a", "r", "t">>
s_Accident == <<"A", "c", "c", "i", "d", "e", "n", "t">>
s_Heavy_Traffic == <<"H", "e", "a", "v", "y", " ", "T", "r", "a", "f", "f", "i", "c">>
s_Weather_Conditions == <<"W", "e", "a", "t", "h", "e", "r", " ", "C", "o", "n", "d", "i", "t", "i", "o", "n", "s">>
s_Delayed_by_School == <<"D", "e", "l", "a", "y", "e", "d", " ", "b", "y", " ", "S", "c", "h", "o", "o", "l">>
s_Other == <<"O", "t", "h", "e", "r">>
s_Problem_Run == <<"P", "r", "o", "b", "l", "e", "m", " ", "R", "u", "n">>
s_hour == <<"h", "o", "u", "r">>
s_json_suffix == <<".", "j", "s", "o", "n">>
s_application_json == <<"a", "p", "p", "l", "i", "c", "a", "t", "i", "o", "n", "/", "j", "s", "o", "n">>
s_message == <<"m", "e", "s", "s", "a", "g", "e">>
s_Processed_successfully == <<"P", "r", "o", "c", "e", "s", "s", "e", "d", " ", "s", "u", "c", "c", "e", "s", "s", "f", "u", "l", "l", "y">>
s_error == <<"e", "r", "r", "o", "r">>
s_Missing_required_fields == <<"M", "i", "s", "s", "i", "n", "g", " ", "r", "e", "q", "u", "i", "r", "e", "d", " ", "f", "i", "e", "l", "d", "s", ":", " ">>
s_comma_space == <<",", " ">>
s_invalid_literal == <<"i", "n", "v", "a", "l", "i", "d", " ", "l", "i", "t", "e", "r", "a", "l", " ", "f", "o", "r", " ", "i", "n", "t", "(", ")", " ", "w", "i", "t", "h", " ", "b", "a", "s", "e", " ", "1", "0", ":", " ">>
s_KeyError_body == <<"'", "b", "o", "d", "y", "'">>
s_no_attribute_lower == <<" ", "o", "b", "j", "e", "c", "t", " ", "h", "a", "s", " ", "n", "o", " ", "a", "t", "t", "r", "i", "b", "u", "t", "e", " ", "'", "l", "o", "w", "e", "r", "'">>
s_no_attribute_get == <<" ", "o", "b", "j", "e", "c", "t", " ", "h", "a", "s", " ", "n", "o", " ", "a", "t", "t", "r", "i", "b", "u", "t", "e", " ", "'", "g", "e", "t", "'">>
s_not_iterable == <<" ", "i", "s", " ", "n", "o", "t", " ", "i", "t", "e", "r", "a", "b", "l", "e">>
s_argument_of_type == <<"a", "r", "g", "u", "m", "e", "n", "t", " ", "o", "f", " ", "t", "y", "p", "e", " ">>
s_Expecting_value == <<"E", "x", "p", "e", "c", "t", "i", "n", "g", " ", "v", "a", "l", "u", "e">>
s_Expecting_property_name == <<"E", "x", "p", "e", "c", "t", "i", "n", "g", " ", "p", "r", "o", "p", "e", "r", "t", "y", " ", "n", "a", "m", "e", " ", "e", "n", "c", "l", "o", "s", "e", "d", " ", "i", "n", " ", "d", "o", "u", "b", "l", "e", " ", "q", "u", "o", "t", "e", "s">>
s_Expecting_colon == <<"E", "x", "p", "e", "c", "t", "i", "n", "g", " ", "'", ":", "'", " ", "d", "e", "l", "i", "m", "i", "t", "e", "r">>
s_Expecting_comma == <<"E", "x", "p", "e", "c", "t", "i", "n", "g", " ", "'", ",", "'", " ", "d", "e", "l", "i", "m", "i", "t", "e", "r">>
s_Extra_data == <<"E", "x", "t", "r", "a", " ", "d", "a", "t", "a">>
s_int == <<"i", "n", "t">>
s_str == <<"s", "t", "r">>
s_NoneType == <<"N", "o", "n", "e", "T", "y", "p", "e">>
s_dict == <<"d", "i", "c", "t">>
s_ascii_lowercase == <<"a", "b", "c", "d", "e", "f", "g", "h", "i", "j", "k", "l", "m", "n", "o", "p", "q", "r", "s", "t", "u", "v", "w", "x", "y", "z">>
s_ascii_uppercase == <<"A", "B", "C", "D", "E", "F", "G", "H", "I", "J", "K", "L", "M", "N", "O", "P", "Q", "R", "S", "T", "U", "V", "W", "X", "Y", "Z">>
s_digits == <<"0", "1", "2", "3", "4", "5", "6", "7", "8", "9">>
\* U+2013 EN DASH, one character of the text.
en_dash == "U+2013"
backslash == "\\"
quote == "'"

\* ------------------------------------------------------------ str methods
RECURSIVE Concat(_)
\* "".join(parts)
Concat(parts) ==
    IF parts = <<>> THEN <<>> ELSE Head(parts) \o Concat(Tail(parts))

RECURSIVE Join(_, _)
\* sep.join(parts)
Join(sep, parts) ==
    IF parts = <<>> THEN <<>>
    ELSE IF Len(parts) = 1 THEN parts[1]
    ELSE parts[1] \o sep \o Join(sep, Tail(parts))

\* sub in s
Contains(s, sub) ==
    \E i \in 0..(Len(s) - Len(sub)) : SubSeq(s, i + 1, i + Len(sub)) = sub

\* The index of c in the sequence letters, 0 when absent.
IndexOf(letters, c) ==
    IF \E i \in 1..Len(letters) : letters[i] = c
    THEN CHOOSE i \in 1..Len(letters) : letters[i] = c
    ELSE 0

\* str.lower() of one character.
LowerChar(c) ==
    LET i == IndexOf(s_ascii_uppercase, c)
    IN  IF i = 0 THEN c ELSE s_ascii_lowercase[i]

\* s.lower()
Lower(s) == [i \in 1..Len(s) |-> LowerChar(s[i])]

Whitespace == {" ", "\t", "\n", "\r"}

\* s.strip()
Strip(s) ==
    LET keep == {i \in 1..Len(s) : s[i] \notin Whitespace}
    IN  IF keep = {} THEN <<>>
        ELSE LET lo == CHOOSE i \in keep : \A j \in keep : i <= j
                 hi == CHOOSE i \in keep : \A j \in keep : j <= i
             IN  SubSeq(s, lo, hi)

\* repr(s) of a str: quoted, with every backslash doubled.
RECURSIVE EscapeBackslash(_)
EscapeBackslash(s) ==
    IF s = <<>> THEN <<>>
    ELSE (IF Head(s) = backslash THEN <<backslash, backslash>> ELSE <<Head(s)>>)
         \o EscapeBackslash(Tail(s))

Repr(s) == <<quote>> \o EscapeBackslash(s) \o <<quote>>

\* ------------------------------------------------------------ exceptions
NoException == [type |-> "", msg |-> <<>>]
Exception(type, msg) == [type |-> type, msg |-> msg]
\* A returned value / a raised exception.
Return(val) == [raised |-> FALSE, val |-> val, exc |-> NoException]
Raise(exc) == [raised |-> TRUE, val |-> 0, exc |-> exc]

\* ------------------------------------------------------------ int()
IsDigit(c) == IndexOf(s_digits, c) # 0

RECURSIVE DigitsValue(_)
DigitsValue(s) ==
    IF s = <<>> THEN 0
    ELSE 10 * DigitsValue(SubSeq(s, 1, Len(s) - 1)) + (IndexOf(s_digits, s[Len(s)]) - 1)

\* int(s): surrounding whitespace, an optional sign, decimal digits; anything
\* else raises ValueError naming the literal.
int(s) ==
    LET t == Strip(s)
        signed == t # <<>> /\ t[1] \in {"-", "+"}
        digits == IF signed THEN Tail(t) ELSE t
    IN  IF digits # <<>> /\ \A i \in 1..Len(digits) : IsDigit(digits[i])
        THEN Return(IF signed /\ t[1] = "-" THEN 0 - DigitsValue(digits) ELSE DigitsValue(digits))
        ELSE Raise(Exception("ValueError", s_invalid_literal \o Repr(s)))

RECURSIVE NatToStr(_)
NatToStr(n) ==
    IF n < 10 THEN <<s_digits[n + 1]>>
    ELSE NatToStr(n \div 10) \o <<s_digits[(n % 10) + 1]>>

\* str(n) of an int.
IntToStr(n) == IF n < 0 THEN <<"-">> \o NatToStr(0 - n) ELSE NatToStr(n)

\* ------------------------------------------------------------ Python values
\* t is the type; s the text of a str, n the value of an int, items the
\* (key, value) pairs of a dict in insertion order.
PyStr(s) == [t |-> "str", s |-> s, n |-> 0, items |-> <<>>]
PyInt(n) == [t |-> "int", s |-> <<>>, n |-> n, items |-> <<>>]
PyNone == [t |-> "NoneType", s |-> <<>>, n |-> 0, items |-> <<>>]
PyDict(items) == [t |-> "dict", s |-> <<>>, n |-> 0, items |-> items]

\* The type's name, as error messages print it.
TypeName(v) ==
    CASE v.t = "str" -> s_str
      [] v.t = "int" -> s_int
      [] v.t = "dict" -> s_dict
      [] OTHER -> s_NoneType

\* bool(v)
Truthy(v) ==
    CASE v.t = "str" -> v.s # <<>>
      [] v.t = "int" -> v.n # 0
      [] v.t = "dict" -> v.items # <<>>
      [] OTHER -> FALSE

\* key in d
HasKey(d, key) == \E i \in 1..Len(d.items) : d.items[i][1] = key

\* d.get(key, default)
Get(d, key, default) ==
    IF HasKey(d, key)
    THEN d.items[CHOOSE i \in 1..Len(d.items) : d.items[i][1] = key][2]
    ELSE default

\* d[key] = val: an existing key keeps its place, a new one goes last.
SetItem(d, key, val) ==
    IF HasKey(d, key)
    THEN PyDict([i \in 1..Len(d.items) |->
                  IF d.items[i][1] = key THEN <<key, val>> ELSE d.items[i]])
    ELSE PyDict(Append(d.items, <<key, val>>))

RECURSIVE Update(_, _)
\* {**d, **items}
Update(d, items) ==
    IF items = <<>> THEN d
    ELSE Update(SetItem(d, items[1][1], items[1][2]), Tail(items))

\* ------------------------------------------------------------ json
\* A lexeme of a JSON text: k is its kind, s the text it carries (the decoded
\* characters of a string literal, the numeral of a number).
Punct(c) == [k |-> c, s |-> <<>>]
Ws == [k |-> "ws", s |-> <<" ">>]
StrLit(s) == [k |-> "str", s |-> s]
NumLit(s) == [k |-> "num", s |-> s]
NullLit == [k |-> "null", s |-> <<>>]

JSONDecodeError(msg) == Exception("JSONDecodeError", msg)

IsScalarLex(lex) == lex.k \in {"str", "num", "null"}

\* The Python value of a scalar lexeme.
ScalarOf(lex) ==
    CASE lex.k = "str" -> PyStr(lex.s)
      [] lex.k = "num" -> PyInt(int(lex.s).val)
      [] OTHER -> PyNone

RECURSIVE ParseMembers(_, _, _)
\* The members of an object from toks[i] on, added to d; a repeated name
\* replaces the earlier value.
ParseMembers(toks, i, d) ==
    IF i > Len(toks) \/ toks[i].k # "str"
    THEN Raise(JSONDecodeError(s_Expecting_property_name))
    ELSE IF i + 1 > Len(toks) \/ toks[i + 1].k # ":"
    THEN Raise(JSONDecodeError(s_Expecting_colon))
    ELSE IF i + 2 > Len(toks) \/ ~IsScalarLex(toks[i + 2])
    THEN Raise(JSONDecodeError(s_Expecting_value))
    ELSE LET d2 == SetItem(d, toks[i].s, ScalarOf(toks[i + 2]))
         IN  IF i + 3 > Len(toks)
             THEN Raise(JSONDecodeError(s_Expecting_comma))
             ELSE IF toks[i + 3].k = "}"
             THEN IF i + 3 = Len(toks) THEN Return(d2)
                  ELSE Raise(JSONDecodeError(s_Extra_data))
             ELSE IF toks[i + 3].k = ","
             THEN ParseMembers(toks, i + 4, d2)
             ELSE Raise(JSONDecodeError(s_Expecting_comma))

\* json.loads(text), for texts that are a scalar or an object of scalars.
\* The message of a JSONDecodeError is kept without its position suffix.
json_loads(text) ==
    LET toks == SelectSeq(text, LAMBDA lex : lex.k # "ws")
    IN  IF toks = <<>> THEN Raise(JSONDecodeError(s_Expecting_value))
        ELSE IF IsScalarLex(toks[1])
        THEN IF Len(toks) = 1 THEN Return(ScalarOf(toks[1]))
             ELSE Raise(JSONDecodeError(s_Extra_data))
        ELSE IF toks[1].k = "{"
        THEN IF Len(toks) >= 2 /\ toks[2].k = "}"
             THEN IF Len(toks) = 2 THEN Return(PyDict(<<>>))
                  ELSE Raise(JSONDecodeError(s_Extra_data))
             ELSE ParseMembers(toks, 2, PyDict(<<>>))
        ELSE Raise(JSONDecodeError(s_Expecting_value))

\* The lexeme json.dumps writes for a scalar.
ScalarLex(v) ==
    CASE v.t = "str" -> StrLit(v.s)
      [] v.t = "int" -> NumLit(IntToStr(v.n))
      [] OTHER -> NullLit

RECURSIVE DumpItems(_)
DumpItems(items) ==
    IF items = <<>> THEN <<>>
    ELSE <<StrLit(items[1][1]), Punct(":"), Ws, ScalarLex(items[1][2])>>
         \o (IF Len(items) > 1 THEN <<Punct(","), Ws>> ELSE <<>>)
         \o DumpItems(Tail(items))

\* json.dumps(v): separators ", " and ": ", keys in insertion order.
json_dumps(v) ==
    IF v.t = "dict"
    THEN <<Punct("{")>> \o DumpItems(v.items) \o <<Punct("}")>>
    ELSE <<ScalarLex(v)>>

\* ------------------------------------------------------------ datetime
s_midnight == <<"2", "0", "2", "4", "-", "0", "1", "-", "0", "1", "T", "0", "0", ":", "0", "0", ":", "0", "0">>

RECURSIVE ZeroPad(_, _)
ZeroPad(s, width) == IF Len(s) >= width THEN s ELSE ZeroPad(<<"0">> \o s, width)

MicrosecondDigits == 6

\* datetime.isoformat() of the clock reading t, counted in microseconds after
\* midnight: the fraction is left out when it is zero.
isoformat(t) ==
    IF t = 0 THEN s_midnight
    ELSE s_midnight \o <<".">> \o ZeroPad(NatToStr(t), MicrosecondDigits)

\* ------------------------------------------------------------ main.py
ALERT_PRIORITY_MAP ==
    PyDict(<< <<s_Mechanical_Problem, PyStr(s_high)>>,
              <<s_Flat_Tire, PyStr(s_high)>>,
              <<s_Wont_Start, PyStr(s_high)>>,
              <<s_Accident, PyStr(s_high)>>,
              <<s_Heavy_Traffic, PyStr(s_medium)>>,
              <<s_Weather_Conditions, PyStr(s_medium)>>,
              <<s_Delayed_by_School, PyStr(s_low)>>,
              <<s_Other, PyStr(s_low)>>,
              <<s_Problem_Run, PyStr(s_low)>> >>)

\* A lookup that forgets the default: ALERT_PRIORITY_MAP.get(reason)
alert_priority_no_default(reason) ==
    IF reason.t = "str" THEN Get(ALERT_PRIORITY_MAP, reason.s, PyNone)
    ELSE PyNone

\* ALERT_PRIORITY_MAP.get(reason, "low")
alert_priority(reason) ==
    IF reason.t = "str" THEN Get(ALERT_PRIORITY_MAP, reason.s, PyStr(s_low))
    ELSE PyStr(s_low)

\* The length of the run of character c in s from index i on.
RECURSIVE RunLen(_, _, _)
RunLen(s, i, c) ==
    IF i > Len(s) \/ s[i] # c THEN 0 ELSE 1 + RunLen(s, i + 1, c)

NoMatch == [matched |-> FALSE, groups |-> <<>>]

\* The end of a match of \\d+ in s at index i, 0 when there is none: in the raw
\* string r"(\\d+)" the pattern is a literal backslash and one or more "d".
BackslashDs(s, i) ==
    IF i + 1 <= Len(s) /\ s[i] = backslash /\ s[i + 1] = "d"
    THEN i + RunLen(s, i + 1, "d")
    ELSE 0

\* re.match(r"(\\d+)", s)
match_single(s) ==
    LET e == BackslashDs(s, 1)
    IN  IF e = 0 THEN NoMatch
        ELSE [matched |-> TRUE, groups |-> <<SubSeq(s, 1, e)>>]

\* re.match(r"(\\d+)[-EN DASH](\\d+)", s)
match_range(s) ==
    LET e1 == BackslashDs(s, 1)
        e2 == IF e1 # 0 /\ e1 + 1 <= Len(s) /\ s[e1 + 1] \in {"-", en_dash}
              THEN BackslashDs(s, e1 + 2) ELSE 0
    IN  IF e2 = 0 THEN NoMatch
        ELSE [matched |-> TRUE,
              groups |-> <<SubSeq(s, 1, e1), SubSeq(s, e1 + 2, e2)>>]

AttributeError(v, attr) ==
    Exception("AttributeError", <<quote>> \o TypeName(v) \o <<quote>> \o attr)

HourMinutes == 60

\* parse_delay without .lower(): "hour" is looked for in the text as typed.
parse_delay_case_sensitive(delay_str) ==
    IF ~Truthy(delay_str) THEN Return(0)
    ELSE IF delay_str.t # "str"
    THEN Raise(AttributeError(delay_str, s_no_attribute_lower))
    ELSE LET text == Strip(delay_str.s)
         IN  IF Contains(text, s_hour) THEN Return(HourMinutes)
             ELSE LET mr == match_range(text)
                      ms == match_single(text)
                  IN  IF mr.matched
                      THEN LET min_d == int(mr.groups[1])
                               max_d == int(mr.groups[2])
                           IN  IF min_d.raised THEN min_d
                               ELSE IF max_d.raised THEN max_d
                               ELSE Return((min_d.val + max_d.val) \div 2)
                      ELSE IF ms.matched THEN int(ms.groups[1])
                      ELSE Return(0)

\* parse_delay(delay_str)
parse_delay(delay_str) ==
    IF ~Truthy(delay_str) THEN Return(0)
    ELSE IF delay_str.t # "str"
    THEN Raise(AttributeError(delay_str, s_no_attribute_lower))
    ELSE LET text == Strip(Lower(delay_str.s))
         IN  IF Contains(text, s_hour) THEN Return(HourMinutes)
             ELSE LET mr == match_range(text)
                      ms == match_single(text)
                  IN  IF mr.matched
                      THEN LET min_d == int(mr.groups[1])
                               max_d == int(mr.groups[2])
                           IN  IF min_d.raised THEN min_d
                               ELSE IF max_d.raised THEN max_d
                               ELSE Return((min_d.val + max_d.val) \div 2)
                      ELSE IF ms.matched THEN int(ms.groups[1])
                      ELSE Return(0)

required_fields == <<s_Busbreakdown_ID, s_Route_Number, s_Reason>>

\* f not in data, for the fields of validate_payload: a key of a dict, a
\* substring of a str; any other value is not a container.
missing_fields(data) ==
    SelectSeq(required_fields,
              LAMBDA f : IF data.t = "dict" THEN ~HasKey(data, f)
                         ELSE ~Contains(data.s, f))

\* validate_payload that stops at the first missing field.
validate_payload_first_missing(data) ==
    IF data.t \notin {"dict", "str"}
    THEN Raise(Exception("TypeError",
               s_argument_of_type \o <<quote>> \o TypeName(data) \o <<quote>> \o s_not_iterable))
    ELSE LET missing == missing_fields(data)
         IN  IF missing # <<>>
             THEN Raise(Exception("ValueError", s_Missing_required_fields \o missing[1]))
             ELSE Return(0)

\* validate_payload(data)
validate_payload(data) ==
    IF data.t \notin {"dict", "str"}
    THEN Raise(Exception("TypeError",
               s_argument_of_type \o <<quote>> \o TypeName(data) \o <<quote>> \o s_not_iterable))
    ELSE LET missing == missing_fields(data)
         IN  IF missing # <<>>
             THEN Raise(Exception("ValueError",
                        s_Missing_required_fields \o Join(s_comma_space, missing)))
             ELSE Return(0)

\* An event of the Lambda: a mapping that may hold 'body', a JSON text.
Event(text) == [has_body |-> TRUE, body |-> text]
EventWithoutBody == [has_body |-> FALSE, body |-> <<>>]

\* handler, lines 53-56: body = json.loads(event['body']); validate_payload(body)
load_and_validate(ev) ==
    IF ~ev.has_body THEN Raise(Exception("KeyError", s_KeyError_body))
    ELSE LET loaded == json_loads(ev.body)
         IN  IF loaded.raised THEN loaded
             ELSE LET valid == validate_payload(loaded.val)
                  IN  IF valid.raised THEN valid ELSE loaded

\* handler, line 59: raw_key = f"{datetime.utcnow().isoformat()}.json"
raw_key_at(t) == isoformat(t) \o s_json_suffix

\* handler, lines 60-65: the object put into RAW_BUCKET.
raw_object(body) == [Body |-> json_dumps(body), ContentType |-> s_application_json]

\* A transform that keeps the computed fields a payload already carries
\* (body.setdefault in place of the assignments).
transform_setdefault(body) ==
    IF body.t # "dict" THEN Raise(AttributeError(body, s_no_attribute_get))
    ELSE LET reason == Get(body, s_Reason, PyStr(s_Other))
             b1 == IF HasKey(body, s_alert_priority) THEN body
                   ELSE SetItem(body, s_alert_priority, alert_priority(reason))
             delay == parse_delay(Get(b1, s_How_Long_Delayed, PyStr(<<>>)))
         IN  IF delay.raised THEN delay
             ELSE IF HasKey(b1, s_average_delay_minutes) THEN Return(b1)
             ELSE Return(SetItem(b1, s_average_delay_minutes, PyInt(delay.val)))

\* handler, lines 68-70: the transform of body.
transform(body) ==
    IF body.t # "dict" THEN Raise(AttributeError(body, s_no_attribute_get))
    ELSE LET reason == Get(body, s_Reason, PyStr(s_Other))
             b1 == SetItem(body, s_alert_priority, alert_priority(reason))
             delay == parse_delay(Get(b1, s_How_Long_Delayed, PyStr(<<>>)))
         IN  IF delay.raised THEN delay
             ELSE Return(SetItem(b1, s_average_delay_minutes, PyInt(delay.val)))

\* handler, lines 73-77: the Item of put_item; **body comes last, so its own
\* keys replace the two written before it.
Item(body, t) ==
    Update(PyDict(<< <<s_RouteNumber, Get(body, s_Route_Number, PyNone)>>,
                     <<s_OccurredOn, Get(body, s_Occurred_On, PyStr(isoformat(t)))>> >>),
           body.items)

StatusOK == 200
StatusBadRequest == 400

NoResponse == [statusCode |-> 0, body |-> <<>>]

\* handler, lines 79-82
success_response ==
    [statusCode |-> StatusOK,
     body |-> json_dumps(PyDict(<< <<s_message, PyStr(s_Processed_successfully)>> >>))]

\* A handler that catches ValueError only: any other exception leaves it
\* without a response.
except_ValueError(e) ==
    IF e.type = "ValueError"
    THEN [statusCode |-> StatusBadRequest,
          body |-> json_dumps(PyDict(<< <<s_error, PyStr(e.msg)>> >>))]
    ELSE NoResponse

\* handler, lines 84-88: except Exception as e
except_Exception(e) ==
    [statusCode |-> StatusBadRequest,
     body |-> json_dumps(PyDict(<< <<s_error, PyStr(e.msg)>> >>))]

\* botocore's ClientError, raised by a failed call of a collaborator.
ClientError(msg) == Exception("ClientError", msg)

\* ------------------------------------------------------------ inputs
s_PutObject_failed == <<"A", "n", " ", "e", "r", "r", "o", "r", " ", "o", "c", "c", "u", "r", "r", "e", "d", " ", "(", "I", "n", "t", "e", "r", "n", "a", "l", "E", "r", "r", "o", "r", ")", " ", "w", "h", "e", "n", " ", "c", "a", "l", "l", "i", "n", "g", " ", "t", "h", "e", " ", "P", "u", "t", "O", "b", "j", "e", "c", "t", " ", "o", "p", "e", "r", "a", "t", "i", "o", "n">>
s_PutItem_failed == <<"A", "n", " ", "e", "r", "r", "o", "r", " ", "o", "c", "c", "u", "r", "r", "e", "d", " ", "(", "I", "n", "t", "e", "r", "n", "a", "l", "S", "e", "r", "v", "e", "r", "E", "r", "r", "o", "r", ")", " ", "w", "h", "e", "n", " ", "c", "a", "l", "l", "i", "n", "g", " ", "t", "h", "e", " ", "P", "u", "t", "I", "t", "e", "m", " ", "o", "p", "e", "r", "a", "t", "i", "o", "n">>
v_12 == <<"1", "2">>
v_99 == <<"9", "9">>
v_10_20_min == <<"1", "0", "-", "2", "0", " ", "m", "i", "n">>
v_2_hours == <<"2", " ", "h", "o", "u", "r", "s">>
v_15_30_minutes == <<"1", "5", "-", "3", "0", " ", "m", "i", "n", "u", "t", "e", "s">>
v_45_minutes == <<"4", "5", " ", "m", "i", "n", "u", "t", "e", "s">>
v_about == <<"a", "b", "o", "u", "t">>
v_3_Hours == <<"3", " ", "H", "o", "u", "r", "s">>
v_2024_05_01 == <<"2", "0", "2", "4", "-", "0", "5", "-", "0", "1", "T", "0", "8", ":", "3", "0", ":", "0", "0">>
v_never == <<"n", "e", "v", "e", "r">>
v_urgent == <<"u", "r", "g", "e", "n", "t">>
v_Unknown_Reason == <<"U", "n", "k", "n", "o", "w", "n", " ", "R", "e", "a", "s", "o", "n">>
v_accident == <<"a", "c", "c", "i", "d", "e", "n", "t">>
v_a == <<"a">>
v_backslash_d == <<"\\", "d">>
p_15 == <<"1", "5">>
p_30 == <<"3", "0">>
p_Hour == <<"H", "o", "u", "r">>
p_min == <<"m", "i", "n">>
p_backslash_dd == <<"\\", "d", "d">>

RECURSIVE RenderMembers(_, _)
RenderMembers(items, sep) ==
    IF items = <<>> THEN <<>>
    ELSE <<StrLit(items[1][1]), Punct(":")>> \o sep \o <<ScalarLex(items[1][2])>>
         \o (IF Len(items) > 1 THEN <<Punct(",")>> \o sep ELSE <<>>)
         \o RenderMembers(Tail(items), sep)

\* Three ways a client may write the same object: as json.dumps would, with
\* no whitespace, and with whitespace inside the braces too.
Dumped(items) == <<Punct("{")>> \o RenderMembers(items, <<Ws>>) \o <<Punct("}")>>
Compact(items) == <<Punct("{")>> \o RenderMembers(items, <<>>) \o <<Punct("}")>>
Spaced(items) == <<Punct("{"), Ws>> \o RenderMembers(items, <<Ws>>) \o <<Ws, Punct("}")>>

id_1 == <<s_Busbreakdown_ID, PyInt(1)>>
route_12 == <<s_Route_Number, PyStr(v_12)>>
flat_tire == <<s_Reason, PyStr(s_Flat_Tire)>>
delayed(d) == <<s_How_Long_Delayed, d>>
valid == <<id_1, route_12, flat_tire>>
\* The end-to-end example of the specification: a Flat Tire delayed "10-20 min".
example == valid \o <<delayed(PyStr(v_10_20_min))>>

FormatEvents ==
    { Event(Dumped(example)), Event(Compact(example)), Event(Spaced(example)),
      Event(Compact(valid \o <<<<s_Reason, PyStr(s_Accident)>>>>)) }

RequiredSet == {required_fields[i] : i \in 1..Len(required_fields)}

MissingEvents ==
    { Event(Dumped(SelectSeq(example, LAMBDA kv : kv[1] \notin gone))) :
        gone \in (SUBSET RequiredSet) \ {{}} }

Reasons ==
    { PyStr(s_Mechanical_Problem), PyStr(s_Flat_Tire), PyStr(s_Wont_Start),
      PyStr(s_Accident), PyStr(s_Heavy_Traffic), PyStr(s_Weather_Conditions),
      PyStr(s_Delayed_by_School), PyStr(s_Other), PyStr(s_Problem_Run),
      PyStr(v_Unknown_Reason), PyStr(v_accident), PyStr(<<>>), PyInt(7), PyNone }

ReasonEvents == { Event(Dumped(<<id_1, route_12, <<s_Reason, r>>>>)) : r \in Reasons }

KeyEvents ==
    { Event(Dumped(valid \o <<<<s_Occurred_On, PyStr(v_2024_05_01)>>>>)),
      Event(Dumped(valid \o <<<<s_RouteNumber, PyStr(v_99)>>>>)),
      Event(Dumped(valid \o <<<<s_OccurredOn, PyStr(v_never)>>>>)),
      Event(Dumped(valid \o <<<<s_Occurred_On, PyStr(v_2024_05_01)>>,
                              <<s_OccurredOn, PyStr(v_never)>>>>)) }

EnrichedEvents ==
    { Event(Dumped(valid \o <<<<s_alert_priority, PyStr(v_urgent)>>>>)),
      Event(Dumped(valid \o <<<<s_average_delay_minutes, PyInt(0 - 5)>>>>)),
      Event(Dumped(<<<<s_alert_priority, PyNone>>>> \o valid)) }

DelayEvents ==
    { Event(Dumped(valid \o <<delayed(d)>>)) :
        d \in { PyStr(v_2_hours), PyStr(v_45_minutes), PyStr(v_backslash_d),
                PyStr(<<>>), PyInt(5), PyInt(0), PyNone } }

BrokenEvents ==
    { EventWithoutBody,
      Event(<<>>),
      Event(<<Punct("{"), StrLit(v_a), Punct(":"), NumLit(<<"1">>)>>),
      Event(<<Punct("{"), StrLit(v_a), Punct("}")>>),
      Event(Dumped(valid) \o <<Punct("}")>>),
      Event(<<NumLit(<<"5">>)>>),
      Event(<<StrLit(s_Reason)>>) }

\* The events one invocation is checked on.
Events ==
    FormatEvents \cup MissingEvents \cup ReasonEvents \cup KeyEvents
    \cup EnrichedEvents \cup DelayEvents \cup BrokenEvents

\* The events concurrent invocations are checked on: a valid one that
\* carries the computed fields, one that fails in the transform and one
\* that fails validation.
ConcurrentEvents ==
    { Event(Dumped(valid \o <<<<s_alert_priority, PyStr(v_urgent)>>,
                              <<s_average_delay_minutes, PyInt(0 - 5)>>>>)),
      Event(Dumped(valid \o <<delayed(PyInt(5))>>)),
      Event(Dumped(<<id_1, route_12>>)) }

Pieces ==
    { p_15, p_30, <<"-">>, <<en_dash>>, <<" ">>, s_hour, p_Hour, p_min,
      v_backslash_d, p_backslash_dd }

\* The spec's own examples and values that are no str.
DelayExamples ==
    { PyStr(v_2_hours), PyStr(v_3_Hours), PyStr(v_15_30_minutes),
      PyStr(v_10_20_min), PyStr(v_45_minutes), PyStr(v_about),
      PyNone, PyInt(0), PyInt(5) }

DelayArgs ==
    DelayExamples \cup
    { PyStr(Concat(p)) : p \in UNION { [1..k -> Pieces] : k \in 0..MaxPieces } }

\* ------------------------------------------------------------ state
VARIABLES
    pc,            \* where each invocation of handler stands
    event,         \* its event
    body,          \* its local body
    raw_key,       \* its local raw_key
    item,          \* the Item it built for put_item
    response,      \* what it returned
    writes,        \* the writes it made to each store
    bucket,        \* RAW_BUCKET: key -> object
    table,         \* the DynamoDB table: (RouteNumber, OccurredOn) -> item
    now,           \* the clock
    delay_str,     \* the argument of a call of parse_delay alone
    delay_result   \* and what the call gave

vars == <<pc, event, body, raw_key, item, response, writes, bucket, table, now,
          delay_str, delay_result>>

Invocations == DOMAIN pc

NotCalled == [called |-> FALSE, raised |-> FALSE, val |-> 0, exc |-> NoException]

\* The stores are empty and every invocation is still to come.
Start(ids) ==
    /\ pc = [i \in ids |-> "idle"]
    /\ event = [i \in ids |-> EventWithoutBody]
    /\ body = [i \in ids |-> PyNone]
    /\ raw_key = [i \in ids |-> <<>>]
    /\ item = [i \in ids |-> PyNone]
    /\ response = [i \in ids |-> NoResponse]
    /\ writes = [i \in ids |-> [put_object |-> 0, put_item |-> 0]]
    /\ bucket = <<>>
    /\ table = <<>>
    /\ now = 0

Init ==
    /\ Start({1})
    /\ delay_str = PyNone
    /\ delay_result = NotCalled

InitConc ==
    /\ Start(1..NumInvocations)
    /\ delay_str = PyNone
    /\ delay_result = NotCalled

InitDelay ==
    /\ Start({1})
    /\ delay_str \in DelayArgs
    /\ delay_result = NotCalled

\* store[key] = obj, replacing what the key held.
Put(store, key, obj) ==
    [k \in DOMAIN store \cup {key} |-> IF k = key THEN obj ELSE store[k]]

\* The primary key of an item: the partition key and the sort key.
ItemKey(it) == <<Get(it, s_RouteNumber, PyNone), Get(it, s_OccurredOn, PyNone)>>

\* return resp
Respond(i, resp) ==
    /\ response' = [response EXCEPT ![i] = resp]
    /\ pc' = [pc EXCEPT ![i] = "done"]

\* handler, lines 52-59, on an event among evs: load and validate the body,
\* name the raw object.
handler_begin(i, evs) ==
    /\ pc[i] = "idle"
    /\ \E ev \in evs :
         LET r == load_and_validate(ev)
         IN  /\ event' = [event EXCEPT ![i] = ev]
             /\ IF r.raised
                THEN /\ Respond(i, except_Exception(r.exc))
                     /\ UNCHANGED <<body, raw_key>>
                ELSE /\ body' = [body EXCEPT ![i] = r.val]
                     /\ raw_key' = [raw_key EXCEPT ![i] = raw_key_at(now)]
                     /\ pc' = [pc EXCEPT ![i] = "put_object"]
                     /\ UNCHANGED response
    /\ UNCHANGED <<item, writes, bucket, table, now, delay_str, delay_result>>

\* handler, lines 60-65: s3.put_object writes the object, or fails.
s3_put_object(i) ==
    /\ pc[i] = "put_object"
    /\ \/ /\ bucket' = Put(bucket, raw_key[i], raw_object(body[i]))
          /\ writes' = [writes EXCEPT ![i].put_object = @ + 1]
          /\ pc' = [pc EXCEPT ![i] = "transform"]
          /\ UNCHANGED response
       \/ /\ Respond(i, except_Exception(ClientError(s_PutObject_failed)))
          /\ UNCHANGED <<bucket, writes>>
    /\ UNCHANGED <<event, body, raw_key, item, table, now, delay_str, delay_result>>

\* handler, lines 67-77: transform body and build the Item.
handler_transform(i) ==
    /\ pc[i] = "transform"
    /\ LET r == transform(body[i])
       IN  IF r.raised
           THEN /\ Respond(i, except_Exception(r.exc))
                /\ UNCHANGED <<body, item>>
           ELSE /\ body' = [body EXCEPT ![i] = r.val]
                /\ item' = [item EXCEPT ![i] = Item(r.val, now)]
                /\ pc' = [pc EXCEPT ![i] = "put_item"]
                /\ UNCHANGED response
    /\ UNCHANGED <<event, raw_key, writes, bucket, table, now, delay_str, delay_result>>

\* A put_item whose failure is reported after the item was written.
table_put_item_written_on_failure(i) ==
    /\ pc[i] = "put_item"
    /\ table' = Put(table, ItemKey(item[i]), item[i])
    /\ writes' = [writes EXCEPT ![i].put_item = @ + 1]
    /\ \/ Respond(i, success_response)
       \/ Respond(i, except_Exception(ClientError(s_PutItem_failed)))
    /\ UNCHANGED <<event, body, raw_key, item, bucket, now, delay_str, delay_result>>

\* handler, lines 73-82: table.put_item writes the item and handler returns
\* 200, or the call fails.
table_put_item(i) ==
    /\ pc[i] = "put_item"
    /\ \/ /\ table' = Put(table, ItemKey(item[i]), item[i])
          /\ writes' = [writes EXCEPT ![i].put_item = @ + 1]
          /\ Respond(i, success_response)
       \/ /\ Respond(i, except_Exception(ClientError(s_PutItem_failed)))
          /\ UNCHANGED <<table, writes>>
    /\ UNCHANGED <<event, body, raw_key, item, bucket, now, delay_str, delay_result>>

\* Time passes.
utcnow_tick ==
    /\ now < MaxClock
    /\ now' = now + 1
    /\ UNCHANGED <<pc, event, body, raw_key, item, response, writes, bucket, table,
                   delay_str, delay_result>>

\* One invocation, on any of Events.
Next ==
    \/ \E i \in Invocations : handler_begin(i, Events)
    \/ \E i \in Invocations : s3_put_object(i)
    \/ \E i \in Invocations : handler_transform(i)
    \/ \E i \in Invocations : table_put_item(i)
    \/ utcnow_tick

Spec == Init /\ [][Next]_vars

\* Concurrent invocations, each on any of ConcurrentEvents, interleaved at
\* the calls of the collaborators and of the clock.
NextConc ==
    \/ \E i \in Invocations : handler_begin(i, ConcurrentEvents)
    \/ \E i \in Invocations : s3_put_object(i)
    \/ \E i \in Invocations : handler_transform(i)
    \/ \E i \in Invocations : table_put_item(i)
    \/ utcnow_tick

SpecConc == InitConc /\ [][NextConc]_vars

\* A call of parse_delay on its own.
call_parse_delay ==
    /\ ~delay_result.called
    /\ LET r == parse_delay(delay_str)
       IN  delay_result' = [called |-> TRUE, raised |-> r.raised, val |-> r.val, exc |-> r.exc]
    /\ UNCHANGED <<pc, event, body, raw_key, item, response, writes, bucket, table,
                   now, delay_str>>

NextDelay == call_parse_delay

SpecDelay == InitDelay /\ [][NextDelay]_vars

\* ------------------------------------------------------------ properties
\* The payload an invocation received: what json.loads makes of its event.
Payload(i) == json_loads(event[i].body)

\* Whether invocation i received a mapping.
GotMapping(i) ==
    /\ pc[i] # "idle"
    /\ event[i].has_body
    /\ ~Payload(i).raised
    /\ Payload(i).val.t = "dict"

Keys(d) == {d.items[k][1] : k \in 1..Len(d.items)}

Returned(i, code) == pc[i] = "done" /\ response[i].statusCode = code

\* The text of the "error" member of a response body, <<>> when the body is
\* no object with that one member.
ErrorText(resp) ==
    IF /\ Len(resp.body) = 6
       /\ resp.body[1].k = "{"
       /\ resp.body[2] = StrLit(s_error)
       /\ resp.body[3].k = ":"
       /\ resp.body[5].k = "str"
       /\ resp.body[6].k = "}"
    THEN resp.body[5].s
    ELSE <<>>

\* C1: a mapping payload that lacks required keys is answered 400, and the
\* error text names each required key exactly when the payload lacks it.
C1_MissingFieldsAllNamed ==
    \A i \in Invocations :
        (GotMapping(i) /\ ~(RequiredSet \subseteq Keys(Payload(i).val)))
        => /\ Returned(i, StatusBadRequest)
           /\ \A f \in RequiredSet :
                Contains(ErrorText(response[i]), f) <=> f \notin Keys(Payload(i).val)

\* A payload that lacks two of the three required keys has been answered.
C1_Witness ==
    \E i \in Invocations :
        /\ GotMapping(i)
        /\ Keys(Payload(i).val) \cap RequiredSet = {s_Route_Number}
        /\ Returned(i, StatusBadRequest)

\* Whether invocation i's call of put_object has written its object.
Archived(i) == writes[i].put_object > 0

\* C2: the content archived by an invocation is its input body, lexeme for
\* lexeme.
C2_ArchivedBodyIsRaw ==
    \A i \in Invocations :
        Archived(i) =>
            /\ raw_key[i] \in DOMAIN bucket
            /\ bucket[raw_key[i]].Body = event[i].body

\* The end of the run of decimal digits of s from index i on (i - 1 when
\* there is none).
RECURSIVE DigitsEnd(_, _)
DigitsEnd(s, i) ==
    IF i > Len(s) \/ ~IsDigit(s[i]) THEN i - 1 ELSE DigitsEnd(s, i + 1)

\* What the specification says of a text free of "hour": the average of a
\* leading range, else the leading integer. -1 where it says nothing here.
SpecifiedDelay(s) ==
    LET text == Strip(Lower(s))
        e1 == DigitsEnd(text, 1)
        dash == e1 >= 1 /\ e1 + 1 <= Len(text) /\ text[e1 + 1] \in {"-", en_dash}
        e2 == IF dash THEN DigitsEnd(text, e1 + 2) ELSE 0
    IN  IF dash /\ e2 >= e1 + 2
        THEN (DigitsValue(SubSeq(text, 1, e1)) + DigitsValue(SubSeq(text, e1 + 2, e2))) \div 2
        ELSE IF e1 >= 1 THEN DigitsValue(SubSeq(text, 1, e1))
        ELSE 0 - 1

\* C3: on a text without "hour" that starts with a range or with digits,
\* parse_delay returns the average of the range, or the leading integer.
C3_NumericDelayParsed ==
    (/\ delay_result.called
     /\ delay_str.t = "str"
     /\ ~Contains(Lower(delay_str.s), s_hour)
     /\ SpecifiedDelay(delay_str.s) >= 0)
    => /\ ~delay_result.raised
       /\ delay_result.val = SpecifiedDelay(delay_str.s)

\* "hour" in any letter case somewhere in s.
HasHourAnyCase(s) ==
    \E i \in 1..(Len(s) - 3) :
        /\ s[i] \in {"h", "H"}
        /\ s[i + 1] \in {"o", "O"}
        /\ s[i + 2] \in {"u", "U"}
        /\ s[i + 3] \in {"r", "R"}

\* C4: parse_delay returns 60 for a text that holds "hour" in any letter
\* case, whatever it starts with, and 0 for an empty or absent text.
C4_HourIsSixty ==
    delay_result.called =>
        /\ (delay_str.t = "str" /\ HasHourAnyCase(delay_str.s))
           => (~delay_result.raised /\ delay_result.val = 60)
        /\ (delay_str \in {PyStr(<<>>), PyNone})
           => (~delay_result.raised /\ delay_result.val = 0)

\* parse_delay was called on "3 Hours": a leading number, a capital H.
C4_Witness ==
    /\ delay_result.called
    /\ delay_str = PyStr(v_3_Hours)
    /\ delay_result.val = 60

HighReasons == {s_Mechanical_Problem, s_Flat_Tire, s_Wont_Start, s_Accident}
MediumReasons == {s_Heavy_Traffic, s_Weather_Conditions}

\* The priority the specification gives a reason.
SpecifiedPriority(reason) ==
    IF reason.t = "str" /\ reason.s \in HighReasons THEN PyStr(s_high)
    ELSE IF reason.t = "str" /\ reason.s \in MediumReasons THEN PyStr(s_medium)
    ELSE PyStr(s_low)

\* Whether invocation i has transformed its body.
Transformed(i) == pc[i] = "put_item" \/ Returned(i, StatusOK)

\* C5: the alert_priority handler computes is the one the table of the
\* specification gives the payload's Reason, "low" for any other reason.
C5_PriorityByReason ==
    \A i \in Invocations :
        Transformed(i) =>
            /\ Get(body[i], s_alert_priority, PyNone)
                 = SpecifiedPriority(Get(Payload(i).val, s_Reason, PyNone))
            /\ Get(item[i], s_alert_priority, PyNone) = Get(body[i], s_alert_priority, PyNone)

\* A payload with an unrecognised reason has been given "low".
C5_Witness ==
    \E i \in Invocations :
        /\ Transformed(i)
        /\ Get(Payload(i).val, s_Reason, PyNone) = PyStr(v_Unknown_Reason)
        /\ Get(body[i], s_alert_priority, PyNone) = PyStr(s_low)

\* C6: every item of the table has RouteNumber equal to its "Route Number",
\* and OccurredOn equal to its "Occurred On", or to a reading of the clock
\* when it has none.
C6_KeysFromPayload ==
    \A k \in DOMAIN table :
        LET it == table[k]
        IN  /\ Get(it, s_RouteNumber, PyNone) = Get(it, s_Route_Number, PyNone)
            /\ IF HasKey(it, s_Occurred_On)
               THEN Get(it, s_OccurredOn, PyNone) = Get(it, s_Occurred_On, PyNone)
               ELSE \E t \in 0..now : Get(it, s_OccurredOn, PyNone) = PyStr(isoformat(t))

Priorities == {PyStr(s_high), PyStr(s_medium), PyStr(s_low)}

\* C7: every item of the table has an alert_priority among high, medium and
\* low, the one its Reason gives, and an int average_delay_minutes >= 0.
C7_PersistedRecordsEnriched ==
    \A k \in DOMAIN table :
        LET it == table[k]
            delay == Get(it, s_average_delay_minutes, PyNone)
        IN  /\ Get(it, s_alert_priority, PyNone) \in Priorities
            /\ Get(it, s_alert_priority, PyNone)
                 = SpecifiedPriority(Get(it, s_Reason, PyNone))
            /\ delay.t = "int"
            /\ delay.n >= 0

\* A payload that carried its own alert_priority and a negative
\* average_delay_minutes has been persisted.
C7_Witness ==
    \E i \in Invocations :
        /\ Returned(i, StatusOK)
        /\ Get(Payload(i).val, s_alert_priority, PyNone) = PyStr(v_urgent)
        /\ Get(Payload(i).val, s_average_delay_minutes, PyNone) = PyInt(0 - 5)
        /\ ItemKey(item[i]) \in DOMAIN table

\* Whether every step of invocation i completed: the body was there, parsed
\* and valid, and both writes were made.
AllStepsCompleted(i) ==
    /\ event[i].has_body
    /\ ~Payload(i).raised
    /\ Payload(i).val.t = "dict"
    /\ RequiredSet \subseteq Keys(Payload(i).val)
    /\ writes[i].put_object = 1
    /\ writes[i].put_item = 1

\* C8: an invocation that ended returned 200 or 400: 200 with the success
\* message exactly when every step completed, and 400 with an error text
\* otherwise.
C8_AlwaysAResponse ==
    \A i \in Invocations :
        pc[i] = "done" =>
            /\ response[i].statusCode \in {200, 400}
            /\ response[i].statusCode = 200 <=> AllStepsCompleted(i)
            /\ response[i].statusCode = 200 => response[i] = success_response
            /\ response[i].statusCode = 400 => ErrorText(response[i]) # <<>>
            /\ ~event[i].has_body => ErrorText(response[i]) = s_KeyError_body

\* An invocation whose write to the table failed has returned 400.
C8_Witness ==
    \E i \in Invocations :
        /\ Returned(i, StatusBadRequest)
        /\ writes[i].put_object = 1
        /\ item[i] # PyNone
        /\ writes[i].put_item = 0

AtMostOneWriteEach ==
    \A i \in Invocations : writes[i].put_object <= 1 /\ writes[i].put_item <= 1

\* C9: an invocation that returned 400 made no write to either store, and
\* no invocation writes more than once to a store.
C9_FailureLeavesNoTrace ==
    /\ AtMostOneWriteEach
    /\ \A i \in Invocations :
         Returned(i, StatusBadRequest) =>
             writes[i].put_object = 0 /\ writes[i].put_item = 0

\* Whether invocation i failed after its archive write: its body was valid
\* and the error is not the one of put_object.
FailedAfterArchive(i) ==
    /\ ~load_and_validate(event[i]).raised
    /\ ErrorText(response[i]) # s_PutObject_failed

\* C9 as amended: an invocation that returned 400 made no write to the
\* table; it wrote its raw object, which stays in the bucket, exactly when
\* the step that failed came after the archive write (the transform or
\* put_item); every item of the table is the Item of an invocation that
\* returned 200. No invocation writes more than once to a store.
C9_FailureKeepsOnlyArchive ==
    /\ AtMostOneWriteEach
    /\ \A k \in DOMAIN table :
         \E j \in Invocations : Returned(j, StatusOK) /\ table[k] = item[j]
    /\ \A i \in Invocations :
         Returned(i, StatusBadRequest) =>
             /\ writes[i].put_item = 0
             /\ writes[i].put_object = 1 <=> FailedAfterArchive(i)
             /\ FailedAfterArchive(i) => raw_key[i] \in DOMAIN bucket

\* An invocation failed in its transform, after its archive write.
C9_Witness ==
    \E i \in Invocations :
        /\ Returned(i, StatusBadRequest)
        /\ writes[i].put_object = 1
        /\ item[i] = PyNone
        /\ raw_key[i] \in DOMAIN bucket

\* C10: the bucket holds one object for each archive write that succeeded,
\* and an invocation that returned 200 finds its own object under its key.
C10_EveryArchiveKept ==
    /\ Cardinality(DOMAIN bucket) = Cardinality({i \in Invocations : Archived(i)})
    /\ \A i \in Invocations :
         Returned(i, StatusOK) =>
             /\ raw_key[i] \in DOMAIN bucket
             /\ bucket[raw_key[i]] = raw_object(Payload(i).val)

====
